---- MODULE Spec2Model ----
(***************************************************************************)
(* Tick-based animation / timing core of the Blit-Tech animation demo      *)
(* (src/src/animation.ts, class AnimationDemo).                            *)
(*                                                                         *)
(* The engine owns the tick counter BT.ticks() and calls update() once per *)
(* simulation step.  One Update action is one engine step: the counter     *)
(* moves by a non-negative amount and update() runs to completion.         *)
(*                                                                         *)
(* Spec is the program.  SpecCall adds direct calls of the private         *)
(* changeState at the end of a program run; SpecMark adds an observer that *)
(* marks a frame and counts the advances after it; SpecRender adds the     *)
(* render pass; SpecRepeat drives update() with unit and unchanged ticks   *)
(* only, without a limit on the unchanged ones; SpecTwin runs a second     *)
(* instance on the same ticks with its own random numbers.  The variables  *)
(* last and obs record branches taken and step counts; no operation reads  *)
(* them.                                                                   *)
(*                                                                         *)
(* Real-valued ratios of the source are compared exactly by cross          *)
(* multiplication with their positive denominators:                        *)
(*     (a / d) >= 1.0   is   a >= d          (d = jumpDuration = 60)        *)
(*     (a / 60) < k     is   a < k * 60                                    *)
(***************************************************************************)
EXTENDS Integers, Sequences, FiniteSets

\* ---------------------------------------------------------------- bounds
\* Largest value of the engine's tick counter that is explored.
MaxTick == 620
\* Largest advance of the tick counter between two update() calls
\* (0 = update() invoked again with an unchanged tick).
MaxSkip == 2
\* Number of update() calls in one run whose tick advance differs from 1.
MaxIrregular == 2
\* Number of direct calls of private operations made by the unit harness.
MaxCalls == 1

\* Pairs of values of Math.floor(Math.random() * 300) and
\* Math.floor(Math.random() * 100) that are explored (both ends of each range).
Rands == {<<0, 0>>, <<299, 99>>}

\* ------------------------------------------------------- program constants
Idle == "Idle"
Walking == "Walking"
Jumping == "Jumping"
AnimState == {Idle, Walking, Jumping}

abilityCooldownDuration == 120
spawnInterval == 180
jumpDuration == 60
\* Literal 180 of the particle filter in update().
particleLifetime == 180
\* Literals of autoCycleStates: 6-second cycle at 60 ticks per second.
cyclePeriod == 360
ticksPerSecond == 60

VARIABLES
    ticks,                \* BT.ticks(): the engine's tick counter
    animation,            \* this.animation
    abilityCooldownTicks, \* this.abilityCooldownTicks
    lastSpawnTick,        \* this.lastSpawnTick
    particles,            \* this.particles
    jumpStartTick,        \* this.jumpStartTick
    assets,               \* this.font, this.spriteSheet, the call of initialize()
    twin,                 \* fields of a second instance fed the same ticks
    basicGame,            \* BasicGame (patterns.ts): playerPos, playerVel, font
    last,                 \* observer: which branches the last operation took
    obs                   \* observer: bookkeeping for the timing properties

vars == <<ticks, animation, abilityCooldownTicks, lastSpawnTick, particles,
          jumpStartTick, assets, twin, basicGame, last, obs>>

\* The mutable fields of AnimationDemo as one value.
Game ==
    [animation |-> animation,
     abilityCooldownTicks |-> abilityCooldownTicks,
     lastSpawnTick |-> lastSpawnTick,
     particles |-> particles,
     jumpStartTick |-> jumpStartTick]

\* ------------------------------------------------------------- operations

\* Variant of getFrameCount with a 4-frame Walking animation.
getFrameCountShort(state) ==
    CASE state = Idle -> 4
      [] state = Walking -> 4
      [] state = Jumping -> 4

getFrameCount(state) ==
    CASE state = Idle -> 4
      [] state = Walking -> 6
      [] state = Jumping -> 4

\* Variant of changeState without the same-state guard.
changeStateAlways(g, newState, now) ==
    [g EXCEPT !.animation.state = newState,
              !.animation.frameIndex = 0,
              !.animation.lastFrameChangeTick = now,
              !.jumpStartTick =
                  IF newState = Jumping THEN now ELSE g.jumpStartTick]

\* Variant of changeState that never stamps jumpStartTick.
changeStateNoJumpStamp(g, newState, now) ==
    IF g.animation.state # newState
    THEN [g EXCEPT !.animation.state = newState,
                   !.animation.frameIndex = 0,
                   !.animation.lastFrameChangeTick = now]
    ELSE g

\* Variant of changeState that keeps lastFrameChangeTick.
changeStateKeepTick(g, newState, now) ==
    IF g.animation.state # newState
    THEN [g EXCEPT !.animation.state = newState,
                   !.animation.frameIndex = 0,
                   !.jumpStartTick =
                       IF newState = Jumping THEN now ELSE g.jumpStartTick]
    ELSE g

\* Variant of changeState that carries frameIndex over into the new state.
changeStateKeepFrame(g, newState, now) ==
    IF g.animation.state # newState
    THEN [g EXCEPT !.animation.state = newState,
                   !.animation.lastFrameChangeTick = now,
                   !.jumpStartTick =
                       IF newState = Jumping THEN now ELSE g.jumpStartTick]
    ELSE g

\* changeState(newState); now is the value BT.ticks() returns inside it.
changeState(g, newState, now) ==
    IF g.animation.state # newState
    THEN [g EXCEPT !.animation.state = newState,
                   !.animation.frameIndex = 0,
                   !.animation.lastFrameChangeTick = now,
                   !.jumpStartTick =
                       IF newState = Jumping THEN now ELSE g.jumpStartTick]
    ELSE g

\* Variant of frameDue with a strict comparison.
frameDueLate(g, currentTick) ==
    currentTick - g.animation.lastFrameChangeTick > g.animation.frameDuration

\* Condition of the frame-advance branch of updateAnimation.
frameDue(g, currentTick) ==
    currentTick - g.animation.lastFrameChangeTick >= g.animation.frameDuration

\* Variant of advanceFrame without the wrap-around.
advanceFrameNoWrap(g, currentTick) ==
    IF frameDue(g, currentTick)
    THEN [g EXCEPT !.animation.frameIndex = g.animation.frameIndex + 1,
                   !.animation.lastFrameChangeTick = currentTick]
    ELSE g

\* Variant of advanceFrame that does not stamp lastFrameChangeTick.
advanceFrameNoStamp(g, currentTick) ==
    IF frameDue(g, currentTick)
    THEN [g EXCEPT !.animation.frameIndex =
                       (g.animation.frameIndex + 1)
                           % getFrameCount(g.animation.state)]
    ELSE g

\* Frame-advance branch of updateAnimation.
advanceFrame(g, currentTick) ==
    IF frameDue(g, currentTick)
    THEN [g EXCEPT !.animation.frameIndex =
                       (g.animation.frameIndex + 1)
                           % getFrameCount(g.animation.state),
                   !.animation.lastFrameChangeTick = currentTick]
    ELSE g

\* Variant of jumpOver with a strict comparison.
jumpOverLate(g, currentTick) ==
    /\ g.animation.state = Jumping
    /\ currentTick - g.jumpStartTick > jumpDuration

\* Variant of jumpOver that measures from the latest frame change.
jumpOverFromFrame(g, currentTick) ==
    /\ g.animation.state = Jumping
    /\ currentTick - g.animation.lastFrameChangeTick >= jumpDuration

\* Condition of the jump-completion branch of updateAnimation:
\* state === Jumping and (currentTick - jumpStartTick) / jumpDuration >= 1.0.
jumpOver(g, currentTick) ==
    /\ g.animation.state = Jumping
    /\ currentTick - g.jumpStartTick >= jumpDuration

updateAnimation(g, currentTick, now) ==
    LET g1 == advanceFrame(g, currentTick)
    IN  IF jumpOver(g1, currentTick) THEN changeState(g1, Idle, now) ELSE g1

\* Variant of tickCooldown without the positivity guard.
tickCooldownUnguarded(g) ==
    [g EXCEPT !.abilityCooldownTicks = g.abilityCooldownTicks - 1]

\* Variant of tickCooldown that stops counting at 1.
tickCooldownStopAtOne(g) ==
    IF g.abilityCooldownTicks > 1
    THEN [g EXCEPT !.abilityCooldownTicks = g.abilityCooldownTicks - 1]
    ELSE g

\* "Update ability cooldown" block of update().
tickCooldown(g) ==
    IF g.abilityCooldownTicks > 0
    THEN [g EXCEPT !.abilityCooldownTicks = g.abilityCooldownTicks - 1]
    ELSE g

\* Variant of spawnParticle without the offsets of the spawn rectangle.
spawnParticleUnshifted(g, rx, ry, now) ==
    [g EXCEPT !.particles =
        Append(g.particles, [pos |-> <<rx, ry>>, spawnTick |-> now])]

\* Variant of spawnParticle whose spawn tick depends on the random x.
spawnParticleJitter(g, rx, ry, now) ==
    [g EXCEPT !.particles =
        Append(g.particles,
               [pos |-> <<rx + 10, ry + 30>>, spawnTick |-> now - (rx % 2)])]

\* Variant of spawnParticle that stamps the particle with lastSpawnTick,
\* which update() has not yet moved to the current tick.
spawnParticleStale(g, rx, ry, now) ==
    [g EXCEPT !.particles =
        Append(g.particles,
               [pos |-> <<rx + 10, ry + 30>>, spawnTick |-> g.lastSpawnTick])]

\* spawnParticle(); rx, ry are the two Math.floor(Math.random() * n) values.
spawnParticle(g, rx, ry, now) ==
    [g EXCEPT !.particles =
        Append(g.particles, [pos |-> <<rx + 10, ry + 30>>, spawnTick |-> now])]

\* Variant of spawnDue that fires one tick early.
spawnDueEarly(g, currentTick) ==
    currentTick - g.lastSpawnTick >= spawnInterval - 1

\* Variant of spawnDue with a strict comparison.
spawnDueStrict(g, currentTick) ==
    currentTick - g.lastSpawnTick > spawnInterval

\* Condition of the "Periodic particle spawning" block of update().
spawnDue(g, currentTick) ==
    currentTick - g.lastSpawnTick >= spawnInterval

\* Variant of tickSpawn that never stamps lastSpawnTick.
tickSpawnNoStamp(g, currentTick, rx, ry, now) ==
    IF spawnDue(g, currentTick)
    THEN spawnParticle(g, rx, ry, now)
    ELSE g

\* Variant of tickSpawn that moves lastSpawnTick on by one interval.
tickSpawnCatchUp(g, currentTick, rx, ry, now) ==
    IF spawnDue(g, currentTick)
    THEN [spawnParticle(g, rx, ry, now)
             EXCEPT !.lastSpawnTick = g.lastSpawnTick + spawnInterval]
    ELSE g

\* "Periodic particle spawning" block of update().
tickSpawn(g, currentTick, rx, ry, now) ==
    IF spawnDue(g, currentTick)
    THEN [spawnParticle(g, rx, ry, now) EXCEPT !.lastSpawnTick = currentTick]
    ELSE g

\* Variant of alive with an inclusive bound.
aliveInclusive(p, currentTick) ==
    currentTick - p.spawnTick <= particleLifetime

\* Predicate of the particle filter of update().
alive(p, currentTick) == currentTick - p.spawnTick < particleLifetime

\* "Remove old particles" block of update().
pruneParticles(g, currentTick) ==
    [g EXCEPT !.particles =
        SelectSeq(g.particles, LAMBDA p : alive(p, currentTick))]

\* Variant of cycleTarget with inclusive window ends.
cycleTargetInclusive(currentTick) ==
    LET phase == currentTick % cyclePeriod
    IN  IF phase <= 2 * ticksPerSecond THEN Idle
        ELSE IF phase <= 4 * ticksPerSecond THEN Walking
        ELSE Jumping

\* State selected by the branches of autoCycleStates:
\* cycleTime = (currentTick % 360) / 60; < 2, < 4, else.
cycleTarget(currentTick) ==
    LET phase == currentTick % cyclePeriod
    IN  IF phase < 2 * ticksPerSecond THEN Idle
        ELSE IF phase < 4 * ticksPerSecond THEN Walking
        ELSE Jumping

\* Variant of armDue without the test for an expired cooldown.
armDueAlways(g, currentTick) ==
    /\ cycleTarget(currentTick) = Jumping
    /\ g.animation.state # Jumping

\* Condition under which autoCycleStates arms the cooldown.
armDue(g, currentTick) ==
    /\ cycleTarget(currentTick) = Jumping
    /\ g.animation.state # Jumping
    /\ g.abilityCooldownTicks = 0

autoCycleStates(g, currentTick, now) ==
    LET target == cycleTarget(currentTick)
    IN  IF g.animation.state # target
        THEN LET g1 == changeState(g, target, now)
             IN  IF armDue(g, currentTick)
                 THEN [g1 EXCEPT !.abilityCooldownTicks =
                                     abilityCooldownDuration]
                 ELSE g1
        ELSE g

\* Variant of update that leaves the auto-cycle driver out of a step that
\* completed a jump.
updateStopAfterJump(g, now, rx, ry) ==
    LET currentTick == now
        g1 == updateAnimation(g, currentTick, now)
        g2 == tickCooldown(g1)
        g3 == tickSpawn(g2, currentTick, rx, ry, now)
        g4 == pruneParticles(g3, currentTick)
    IN  IF jumpOver(advanceFrame(g, currentTick), currentTick)
        THEN g4
        ELSE autoCycleStates(g4, currentTick, now)

\* Variant of update that decrements the cooldown after the auto-cycle
\* driver instead of before it.
updateDecrementLast(g, now, rx, ry) ==
    LET currentTick == now
        g1 == updateAnimation(g, currentTick, now)
        g3 == tickSpawn(g1, currentTick, rx, ry, now)
        g4 == pruneParticles(g3, currentTick)
    IN  tickCooldown(autoCycleStates(g4, currentTick, now))

\* Variant of update that runs the timers (cooldown, auto-cycle driver)
\* before the animation state machine, and spawn and prune last.
updateSchedulerFirst(g, now, rx, ry) ==
    LET currentTick == now
        g1 == tickCooldown(g)
        g2 == autoCycleStates(g1, currentTick, now)
        g3 == updateAnimation(g2, currentTick, now)
        g4 == tickSpawn(g3, currentTick, rx, ry, now)
    IN  pruneParticles(g4, currentTick)

\* Variant of update in which the clock has moved on by one tick when
\* changeState and spawnParticle read it again.
updateClockDrift(g, now, rx, ry) ==
    LET currentTick == now
        g1 == updateAnimation(g, currentTick, now + 1)
        g2 == tickCooldown(g1)
        g3 == tickSpawn(g2, currentTick, rx, ry, now + 1)
        g4 == pruneParticles(g3, currentTick)
    IN  autoCycleStates(g4, currentTick, now + 1)

\* update() with BT.ticks() = now throughout.
update(g, now, rx, ry) ==
    LET currentTick == now
        g1 == updateAnimation(g, currentTick, now)
        g2 == tickCooldown(g1)
        g3 == tickSpawn(g2, currentTick, rx, ry, now)
        g4 == pruneParticles(g3, currentTick)
    IN  autoCycleStates(g4, currentTick, now)

\* initialize() is async.  pc is where the call stands: "init" (not yet
\* called), "fontLoad" (suspended at await BitmapFont.load), "imageLoad"
\* (suspended at the await of createAnimatedSpriteSheet, itself waiting for
\* the image), "sheetRejected" (suspended at that await on a promise that
\* createAnimatedSpriteSheet has rejected), "done" (settled).
\* result is the value the promise resolved to, "threw" when it rejected,
\* "pending" until then.

\* The call of initialize() up to its first await.
initializeCall(a) == [a EXCEPT !.pc = "fontLoad"]

\* Variant of initializeFontSettled whose catch block logs the font error
\* and carries on.
initializeFontSwallow(a, fontLoads, ctxOk) ==
    IF ~ctxOk
    THEN [a EXCEPT !.font = fontLoads, !.pc = "sheetRejected"]
    ELSE [a EXCEPT !.font = fontLoads, !.pc = "imageLoad"]

\* initialize() resumed after BitmapFont.load settled (fontLoads = it
\* resolved): the catch block returns false; otherwise this.font is set and
\* createAnimatedSpriteSheet runs up to its await, or throws when the canvas
\* yields no 2D context (ctxOk = FALSE) and so returns a rejected promise;
\* either way initialize() suspends at its second await.
initializeFontSettled(a, fontLoads, ctxOk) ==
    IF ~fontLoads
    THEN [a EXCEPT !.result = "false", !.pc = "done"]
    ELSE IF ~ctxOk
    THEN [a EXCEPT !.font = TRUE, !.pc = "sheetRejected"]
    ELSE [a EXCEPT !.font = TRUE, !.pc = "imageLoad"]

\* initialize() resumed with the rejection of createAnimatedSpriteSheet:
\* its own promise rejects.
initializeSheetRejected(a) == [a EXCEPT !.result = "threw", !.pc = "done"]

\* initialize() resumed after the image of the sprite sheet loaded:
\* this.spriteSheet is set and the promise resolves to true.
initializeImageLoaded(a) ==
    [a EXCEPT !.spriteSheet = TRUE, !.result = "true", !.pc = "done"]

\* The engine enters its update loop only after initialize() resolved true.
loopRunning == assets.result = "true"

\* Ages at which the double-precision value of 255 * (1 - age / 180) lies
\* just below the integer that the exact quotient is.
alphaRoundedDown == {144, 156, 168, 276, 288, 300, 312, 372, 396, 420, 444}

\* Variant of particleAlpha that drops the "1 -" of the fade.
particleAlphaFadeIn(age) ==
    (255 * age) \div particleLifetime

\* Math.floor(255 * (1 - age / lifetime)) of renderParticles, for age < 460.
particleAlpha(age) ==
    ((255 * (particleLifetime - age)) \div particleLifetime)
        - (IF age \in alphaRoundedDown THEN 1 ELSE 0)

\* Math.ceil(n / 60) of the "s" read-outs of renderUI.
ceilSeconds(n) == -((-n) \div ticksPerSecond)

\* What render() reads and draws at BT.ticks() = now.
renderOut(g, a, now) ==
    IF ~a.font \/ ~a.spriteSheet
    THEN [loading |-> TRUE]
    ELSE [loading |-> FALSE,
          state |-> g.animation.state,
          srcX |-> g.animation.frameIndex * 32,
          frameText |-> <<g.animation.frameIndex + 1,
                          getFrameCount(g.animation.state)>>,
          jumpElapsed |-> IF g.animation.state = Jumping
                          THEN now - g.jumpStartTick ELSE 0,
          alphas |-> [i \in DOMAIN g.particles |->
                         particleAlpha(now - g.particles[i].spawnTick)],
          cooldownSeconds |-> ceilSeconds(g.abilityCooldownTicks),
          cooldownFill |-> (100 * g.abilityCooldownTicks)
                               \div abilityCooldownDuration,
          ticksUntilSpawn |-> spawnInterval - (now - g.lastSpawnTick),
          particleCount |-> Len(g.particles)]

\* Variant of render that also counts the ability cooldown down.
renderTicksCooldown(g, a, now) ==
    [game |-> IF a.font /\ a.spriteSheet THEN tickCooldown(g) ELSE g,
     out |-> renderOut(g, a, now)]

\* render(): the fields it leaves behind and what it draws.
render(g, a, now) == [game |-> g, out |-> renderOut(g, a, now)]

\* ---------------------------------------------------------------- observers

\* ------------------------------------------- BasicGame (src/src/patterns.ts)

\* displaySize of queryHardware(), which BT.displaySize() returns.
displaySize == <<320, 240>>

\* this.playerSize
playerSize == <<16, 16>>

\* The fields of BasicGame after construction; result is what initialize()
\* resolved to and pc where that call stands: "init" (not yet called),
\* "fontLoad" (suspended at await BitmapFont.load), "done".
InitBasicGame ==
    [playerPos |-> <<160, 120>>, playerVel |-> <<2, 1>>, font |-> FALSE,
     result |-> "pending", pc |-> "init"]

Min(a, b) == IF a <= b THEN a ELSE b

Max(a, b) == IF a >= b THEN a ELSE b

\* The call of BasicGame.initialize() up to its await.
BasicGame_initializeCall(b) == [b EXCEPT !.pc = "fontLoad"]

\* BasicGame.initialize() resumed after BitmapFont.load settled: a failed
\* load is logged and ignored; the player is centred,
\* Math.floor(displaySize / 2 - playerSize / 2).
BasicGame_initializeFontSettled(b, fontLoads) ==
    [b EXCEPT !.font = fontLoads,
              !.pc = "done",
              !.playerPos = <<(displaySize[1] - playerSize[1]) \div 2,
                              (displaySize[2] - playerSize[2]) \div 2>>,
              !.result = "true"]

\* Variant of bounce with strict comparisons against the edges.
bounceStrict(pos, vel, limit) ==
    IF pos < 0 \/ pos > limit
    THEN [pos |-> Max(0, Min(limit, pos)), vel |-> -vel]
    ELSE [pos |-> pos, vel |-> vel]

\* One "Handle ... bounds" block of BasicGame.update() on the moved
\* coordinate pos, with limit = displaySize - playerSize on that axis.
bounce(pos, vel, limit) ==
    IF pos <= 0 \/ pos >= limit
    THEN [pos |-> Max(0, Min(limit, pos)), vel |-> -vel]
    ELSE [pos |-> pos, vel |-> vel]

\* BasicGame.update()
BasicGame_update(b) ==
    LET x == bounce(b.playerPos[1] + b.playerVel[1], b.playerVel[1],
                    displaySize[1] - playerSize[1])
        y == bounce(b.playerPos[2] + b.playerVel[2], b.playerVel[2],
                    displaySize[2] - playerSize[2])
    IN  [b EXCEPT !.playerPos = <<x.pos, y.pos>>,
                  !.playerVel = <<x.vel, y.vel>>]

\* The engine drives BasicGame.update() once initialize() resolved to true.
basicLoopRunning == basicGame.result = "true"

\* Saturating step counter.
Bump(n, cap) == IF n < cap THEN n + 1 ELSE cap

\* Record of the last operation: its name and argument, the state and frame
\* it started from (for update() also the cooldown it started from), and the
\* branches it took.
NoFlags ==
    [op |-> "init", arg |-> "none", fromState |-> Idle, fromFrame |-> 0,
     fromCooldown |-> 0,
     advanced |-> FALSE, jumpDone |-> FALSE, cycled |-> FALSE,
     armed |-> FALSE, fired |-> FALSE, out |-> <<>>]

\* Branches taken by update(g, now, ..).
updateFlags(g, now) ==
    LET g1 == advanceFrame(g, now)
        g2 == updateAnimation(g, now, now)
        g3 == tickCooldown(g2)
    IN  [op |-> "update", arg |-> "none",
         fromState |-> g.animation.state,
         fromFrame |-> g.animation.frameIndex,
         fromCooldown |-> g.abilityCooldownTicks,
         advanced |-> frameDue(g, now),
         jumpDone |-> jumpOver(g1, now),
         cycled |-> g3.animation.state # cycleTarget(now),
         armed |-> armDue(g3, now),
         fired |-> spawnDue(g3, now),
         out |-> <<>>]

\* Branch taken by a direct call changeState(newState).
callFlags(g, newState) ==
    [NoFlags EXCEPT !.op = "changeState", !.arg = newState,
                    !.fromState = g.animation.state,
                    !.fromFrame = g.animation.frameIndex,
                    !.cycled = g.animation.state # newState]

ObsInit ==
    [transTick |-> 0,     \* tick of the latest state change (construction: 0)
     unit |-> TRUE,       \* every update since then moved the tick by 1
     armSteps |-> -1,     \* update() calls since the latest arming (-1: none)
     irregular |-> 0,     \* update() calls so far with a tick advance # 1
                          \* (counted up to MaxIrregular)
     fireTick |-> -1,     \* tick of the latest spawn-timer fire (-1: none)
     calls |-> 0,         \* direct calls made by the unit harness
     markFrame |-> -1,    \* frameIndex at the latest mark (-1: no mark)
     markAdv |-> 0]       \* frame advances since the latest mark

\* Bookkeeping after a state change at tick now.
changedObs(o, now) ==
    [o EXCEPT !.transTick = now, !.unit = TRUE, !.markFrame = -1, !.markAdv = 0]

\* Bookkeeping after update(g, now, ..) reached from tick old.
updateObs(o, f, old, now) ==
    LET o1 == [o EXCEPT
                 !.irregular = IF now # old + 1
                               THEN Bump(o.irregular, MaxIrregular)
                               ELSE o.irregular,
                 !.fireTick = IF f.fired THEN now ELSE o.fireTick,
                 !.armSteps = IF f.armed THEN 0
                              ELSE IF o.armSteps < 0 THEN o.armSteps
                              ELSE Bump(o.armSteps, abilityCooldownDuration + 1)]
    IN  IF f.jumpDone \/ f.cycled
        THEN changedObs(o1, now)
        ELSE [o1 EXCEPT
                !.unit = o.unit /\ now = old + 1,
                !.markAdv = IF o.markFrame >= 0 /\ f.advanced
                            THEN Bump(o.markAdv, 7) ELSE o.markAdv]

\* ------------------------------------------------------------------ actions

\* The fields of AnimationDemo after construction.
InitGame ==
    [animation |-> [state |-> Idle, frameIndex |-> 0, frameDuration |-> 8,
                    lastFrameChangeTick |-> 0],
     abilityCooldownTicks |-> 0,
     lastSpawnTick |-> 0,
     particles |-> <<>>,
     jumpStartTick |-> 0]

Init ==
    /\ ticks = 0
    /\ animation = [state |-> Idle, frameIndex |-> 0, frameDuration |-> 8,
                    lastFrameChangeTick |-> 0]
    /\ abilityCooldownTicks = 0
    /\ lastSpawnTick = 0
    /\ particles = <<>>
    /\ jumpStartTick = 0
    /\ assets = [font |-> FALSE, spriteSheet |-> FALSE, result |-> "pending",
                 pc |-> "init"]
    /\ twin = InitGame
    /\ basicGame = InitBasicGame
    /\ last = NoFlags
    /\ obs = ObsInit

Install(g) ==
    /\ animation' = g.animation
    /\ abilityCooldownTicks' = g.abilityCooldownTicks
    /\ lastSpawnTick' = g.lastSpawnTick
    /\ particles' = g.particles
    /\ jumpStartTick' = g.jumpStartTick

GameVars ==
    <<animation, abilityCooldownTicks, lastSpawnTick, particles, jumpStartTick>>

\* The engine calls initialize() once, before anything else; the call runs
\* to its first await.
InitializeCall ==
    /\ assets.pc = "init"
    /\ assets' = initializeCall(assets)
    /\ UNCHANGED <<ticks, GameVars, twin, basicGame, last, obs>>

\* The font load settles and initialize() runs on to its return or to its
\* second await.
InitializeFontSettled(fontLoads, ctxOk) ==
    /\ assets.pc = "fontLoad"
    /\ assets' = initializeFontSettled(assets, fontLoads, ctxOk)
    /\ UNCHANGED <<ticks, GameVars, twin, basicGame, last, obs>>

\* The image load settles and initialize() runs to its end.
InitializeImageLoaded ==
    /\ assets.pc = "imageLoad"
    /\ assets' = initializeImageLoaded(assets)
    /\ UNCHANGED <<ticks, GameVars, twin, basicGame, last, obs>>

\* The rejection of createAnimatedSpriteSheet reaches initialize().
InitializeSheetRejected ==
    /\ assets.pc = "sheetRejected"
    /\ assets' = initializeSheetRejected(assets)
    /\ UNCHANGED <<ticks, GameVars, twin, basicGame, last, obs>>

Boot ==
    \/ InitializeCall
    \/ \E fontLoads \in BOOLEAN, ctxOk \in BOOLEAN :
          InitializeFontSettled(fontLoads, ctxOk)
    \/ InitializeImageLoaded
    \/ InitializeSheetRejected

\* One pass of the engine's loop: the tick counter moves by d, then update()
\* runs on this instance.
Drive(d, rx, ry) ==
    /\ loopRunning
    /\ ticks + d <= MaxTick
    /\ obs.calls = 0
    /\ ticks' = ticks + d
    /\ Install(update(Game, ticks + d, rx, ry))
    /\ last' = updateFlags(Game, ticks + d)
    /\ obs' = updateObs(obs, updateFlags(Game, ticks + d), ticks, ticks + d)
    /\ UNCHANGED <<assets, basicGame>>

\* One engine step: the tick counter moves by d, then update() runs.
Update(d, rx, ry) ==
    /\ d # 1 => obs.irregular < MaxIrregular
    /\ Drive(d, rx, ry)
    /\ UNCHANGED twin

Step == \E d \in 0..MaxSkip, r \in Rands : Update(d, r[1], r[2])

Next == Boot \/ Step

\* The program: the engine drives update() with non-decreasing ticks.
Spec == Init /\ [][Next]_vars

\* Unit harness: after any run of the program, changeState(newState) is
\* called directly at the current tick.
CallChangeState(newState) ==
    /\ obs.calls < MaxCalls
    /\ Install(changeState(Game, newState, ticks))
    /\ last' = callFlags(Game, newState)
    /\ obs' = [(IF animation.state # newState
                THEN changedObs(obs, ticks) ELSE obs)
               EXCEPT !.calls = obs.calls + 1]
    /\ UNCHANGED <<ticks, assets, twin, basicGame>>

Call == \E newState \in AnimState : CallChangeState(newState)

NextCall == Boot \/ Step \/ Call

SpecCall == Init /\ [][NextCall]_vars

\* Observer: remember the current frameIndex and start counting advances.
Mark ==
    /\ obs.markFrame = -1
    /\ obs' = [obs EXCEPT !.markFrame = animation.frameIndex, !.markAdv = 0]
    /\ UNCHANGED <<ticks, GameVars, assets, twin, basicGame, last>>

NextMark == Boot \/ Step \/ Mark

SpecMark == Init /\ [][NextMark]_vars

\* The engine calls render() at the current tick.
Render ==
    /\ Install(render(Game, assets, ticks).game)
    /\ last' = [NoFlags EXCEPT !.op = "render",
                               !.fromState = animation.state,
                               !.fromFrame = animation.frameIndex,
                               !.out = render(Game, assets, ticks).out]
    /\ UNCHANGED <<ticks, assets, twin, basicGame, obs>>

NextRender == Boot \/ Step \/ Render

SpecRender == Init /\ [][NextRender]_vars

\* update() driven with unit and unchanged ticks, any number of either.
RepeatStep ==
    \E d \in {0, 1}, r \in Rands : Drive(d, r[1], r[2]) /\ UNCHANGED twin

NextRepeat == Boot \/ RepeatStep

SpecRepeat == Init /\ [][NextRepeat]_vars

\* Both instances run update() at the same tick, each with its own random
\* numbers.
TwinUpdate(d, r, q) ==
    /\ d # 1 => obs.irregular < MaxIrregular
    /\ Drive(d, r[1], r[2])
    /\ twin' = update(twin, ticks + d, q[1], q[2])

TwinStep == \E d \in 0..MaxSkip, r \in Rands, q \in Rands : TwinUpdate(d, r, q)

NextTwin == Boot \/ TwinStep

SpecTwin == Init /\ [][NextTwin]_vars

\* The engine calls BasicGame.initialize() once; the call runs to its await.
BasicInitializeCall ==
    /\ basicGame.pc = "init"
    /\ basicGame' = BasicGame_initializeCall(basicGame)
    /\ UNCHANGED <<ticks, GameVars, assets, twin, last, obs>>

\* The font load settles and BasicGame.initialize() runs to its end.
BasicInitializeFontSettled(fontLoads) ==
    /\ basicGame.pc = "fontLoad"
    /\ basicGame' = BasicGame_initializeFontSettled(basicGame, fontLoads)
    /\ UNCHANGED <<ticks, GameVars, assets, twin, last, obs>>

BasicBoot ==
    \/ BasicInitializeCall
    \/ \E fontLoads \in BOOLEAN : BasicInitializeFontSettled(fontLoads)

\* One pass of the engine's loop over BasicGame.
BasicUpdate ==
    /\ basicLoopRunning
    /\ basicGame' = BasicGame_update(basicGame)
    /\ last' = [NoFlags EXCEPT !.op = "BasicGame.update"]
    /\ UNCHANGED <<ticks, GameVars, assets, twin, obs>>

NextBasic == BasicBoot \/ BasicUpdate

\* The Basics demo on its own.
SpecBasic == Init /\ [][NextBasic]_vars

\* ------------------------------------------------------------------- claims

\* C1: in every reachable state 0 <= frameIndex < frameCount(state), with
\* frameCount Idle = 4, Walking = 6, Jumping = 4; also after a transition out
\* of Walking taken at frame 4 or 5.
C1_FrameIndexInRange ==
    /\ animation.frameIndex >= 0
    /\ animation.state = Idle => animation.frameIndex < 4
    /\ animation.state = Walking => animation.frameIndex < 6
    /\ animation.state = Jumping => animation.frameIndex < 4

\* A transition out of Walking at frame 4 or 5 into a 4-frame state.
C1_Witness ==
    /\ last.op = "changeState"
    /\ last.fromState = Walking
    /\ last.fromFrame >= 4
    /\ animation.state \in {Idle, Jumping}
    /\ animation.frameIndex = 0

\* C2: changeState(newState) with newState equal to the current state changes
\* nothing: state, frameIndex, lastFrameChangeTick and jumpStartTick (and every
\* other field) stay as they were.
C2_SameStateNoOp ==
    [][(last'.op = "changeState" /\ last'.arg = animation.state)
        => /\ animation' = animation
           /\ jumpStartTick' = jumpStartTick
           /\ abilityCooldownTicks' = abilityCooldownTicks
           /\ lastSpawnTick' = lastSpawnTick
           /\ particles' = particles]_vars

\* changeState(Jumping) called in the middle of a jump, on a later frame.
C2_Witness ==
    /\ last.op = "changeState"
    /\ last.arg = Jumping
    /\ last.fromState = Jumping
    /\ animation.state = Jumping
    /\ animation.frameIndex > 0
    /\ animation.lastFrameChangeTick < ticks
    /\ jumpStartTick < animation.lastFrameChangeTick

\* What a state-changing transition to newState at tick t leaves behind, given
\* the jumpStartTick before it.
TransitionEffect(newState, t, jumpBefore) ==
    /\ animation'.state = newState
    /\ animation'.frameIndex = 0
    /\ animation'.lastFrameChangeTick = t
    /\ animation'.frameDuration = animation.frameDuration
    /\ newState = Jumping => jumpStartTick' = t
    /\ newState # Jumping => jumpStartTick' = jumpBefore

\* C3: a transition to a state different from the current one at tick t sets
\* state = newState, frameIndex = 0, lastFrameChangeTick = t; it sets
\* jumpStartTick = t when newState is Jumping and leaves it unchanged otherwise.
\* Direct calls, the auto-cycle transition and the jump-completion transition.
C3_TransitionEffect ==
    [][/\ (last'.op = "changeState" /\ last'.arg # animation.state)
            => TransitionEffect(last'.arg, ticks', jumpStartTick)
       /\ (last'.op = "update" /\ last'.cycled)
            => TransitionEffect(cycleTarget(ticks'), ticks', jumpStartTick)
       /\ (last'.op = "update" /\ last'.jumpDone /\ ~last'.cycled)
            => TransitionEffect(Idle, ticks', jumpStartTick)]_vars

\* A direct transition from Walking into Jumping long after the previous jump.
C3_Witness ==
    /\ last.op = "changeState"
    /\ last.cycled
    /\ last.fromState = Walking
    /\ last.fromFrame > 0
    /\ animation.state = Jumping
    /\ jumpStartTick = ticks
    /\ ticks > cyclePeriod

\* Frame counts as the data model states them.
ClaimFrameCount(state) == IF state = Walking THEN 6 ELSE 4

\* C4: after a state-changing transition at tick t, frameIndex stays 0 at
\* every later step with tick < t + 8 (frameDuration) without a further
\* transition, and no frame increment happens before tick t + 8.
C4_FrameHeldAfterTransition ==
    [][last'.op = "update"
        => /\ (ticks' - obs'.transTick < 8) => animation'.frameIndex = 0
           /\ last'.advanced => ticks' - obs.transTick >= 8]_vars

\* Seven ticks after the transition into Walking at tick 120.
C4_Witness ==
    /\ last.op = "update"
    /\ ~last.cycled
    /\ animation.state = Walking
    /\ obs.transTick = 120
    /\ ticks = 127
    /\ animation.frameIndex = 0

\* C5: a step at tick t without a state transition advances the frame exactly
\* when t - lastFrameChangeTick >= 8: frameIndex becomes (frameIndex + 1) mod
\* frameCount(state) and lastFrameChangeTick becomes t; otherwise both stay.
\* With unit ticks since the latest transition at t0 the frame at tick t0 + k
\* is floor(k / 8) mod frameCount(state).
C5_AdvanceFrame ==
    [][last'.op = "update"
        => /\ (~last'.jumpDone /\ ~last'.cycled)
                => IF ticks' - animation.lastFrameChangeTick >= 8
                   THEN animation' =
                            [animation EXCEPT
                               !.frameIndex =
                                   (@ + 1) % ClaimFrameCount(animation.state),
                               !.lastFrameChangeTick = ticks']
                   ELSE animation' = animation
           /\ obs'.unit
                => animation'.frameIndex =
                       ((ticks' - obs'.transTick) \div 8)
                           % ClaimFrameCount(animation'.state)]_vars

\* Idle from tick 0 with unit ticks: back at frame 0 after tick 32.
C5_Witness ==
    /\ last.op = "update"
    /\ last.advanced
    /\ obs.unit
    /\ obs.transTick = 0
    /\ animation.state = Idle
    /\ ticks = 32
    /\ animation.frameIndex = 0

\* C6: from any frame f of any state, after frameCount(state) frame advances
\* without a state transition the frameIndex is f again.
C6_FrameCycle ==
    (obs.markFrame >= 0 /\ obs.markAdv = ClaimFrameCount(animation.state))
        => animation.frameIndex = obs.markFrame

\* Walking marked at its last frame, six advances later.
C6_Witness ==
    /\ animation.state = Walking
    /\ obs.markFrame = 5
    /\ obs.markAdv = 6
    /\ animation.frameIndex = 5

\* C7: a step that finds the state Jumping at a tick >= jumpStartTick + 60
\* forces the transition to Idle (and only such a step does); with a unit
\* tick advance that tick is exactly jumpStartTick + 60, and no step ends in a
\* jump that has lasted 60 ticks or more.
C7_JumpCompletion ==
    [][last'.op = "update"
        => /\ (animation.state = Jumping /\ ticks' - jumpStartTick >= 60)
                => /\ last'.jumpDone
                   /\ animation'.frameIndex = 0
                   /\ animation'.lastFrameChangeTick = ticks'
                   /\ animation'.state = Jumping => jumpStartTick' = ticks'
                   /\ ticks' = ticks + 1 => ticks' = jumpStartTick + 60
           /\ last'.jumpDone
                => (animation.state = Jumping /\ ticks' - jumpStartTick >= 60)
           /\ animation'.state = Jumping => ticks' - jumpStartTick' < 60]_vars

\* The jump restarted at tick 300 is completed at tick 360, ending in Idle.
C7_Witness ==
    /\ last.op = "update"
    /\ last.jumpDone
    /\ last.fromState = Jumping
    /\ animation.state = Idle
    /\ ticks = 360

\* Windows of the auto-cycle driver as the design states them.
ClaimTarget(t) ==
    IF t % 360 \in 0..119 THEN Idle
    ELSE IF t % 360 \in 120..239 THEN Walking
    ELSE Jumping

\* C8: every update step ends in the state of the window of its tick (Idle
\* on [0,120), Walking on [120,240), Jumping on [240,360) of tick mod 360);
\* when the state differs from that target a transition is performed.
C8_AutoCycle ==
    [][last'.op = "update"
        => /\ animation'.state = ClaimTarget(ticks')
           /\ last'.cycled
                => /\ animation'.frameIndex = 0
                   /\ animation'.lastFrameChangeTick = ticks'
           /\ animation.state # ClaimTarget(ticks')
                => (last'.cycled \/ last'.jumpDone)
           /\ (last'.cycled /\ ~last'.jumpDone)
                => animation.state # ClaimTarget(ticks')]_vars

\* Tick 240 belongs to the Jumping window: the driver leaves Walking there.
C8_Witness ==
    /\ last.op = "update"
    /\ last.cycled
    /\ last.fromState = Walking
    /\ animation.state = Jumping
    /\ ticks = 240

\* C9: abilityCooldownTicks is never negative, and one update step lowers it
\* by at most 1: by exactly 1 when it was positive and is not re-armed, and
\* not at all when it was 0.
C9_CooldownStep ==
    [][last'.op = "update"
        => /\ abilityCooldownTicks >= 0
           /\ abilityCooldownTicks' >= 0
           /\ abilityCooldownTicks' >= abilityCooldownTicks - 1
           /\ (abilityCooldownTicks > 0 /\ ~last'.armed)
                => abilityCooldownTicks' = abilityCooldownTicks - 1
           /\ abilityCooldownTicks = 0
                => \/ abilityCooldownTicks' = 0
                   \/ last'.armed /\ abilityCooldownTicks' = 120]_vars

\* The step that takes the cooldown from 1 to 0.
C9_Witness ==
    /\ last.op = "update"
    /\ ~last.armed
    /\ obs.armSteps = 120
    /\ abilityCooldownTicks = 0

\* C10: k update steps after the cooldown was armed to 120 (0 <= k <= 120)
\* it is 120 - k: positive through step 119, 0 at step 120, and 0 from then
\* on until it is armed again.
C10_CooldownCountdown ==
    /\ obs.armSteps \in 0..120 => abilityCooldownTicks = 120 - obs.armSteps
    /\ obs.armSteps > 120 => abilityCooldownTicks = 0
    /\ obs.armSteps = 119 => abilityCooldownTicks = 1
    /\ (abilityCooldownTicks > 0) <=> (obs.armSteps \in 0..119)

\* More than 120 steps after the arming at tick 240, still not re-armed.
C10_Witness ==
    /\ last.op = "update"
    /\ obs.armSteps > 120
    /\ abilityCooldownTicks = 0
    /\ ticks > 360

\* C11 as stated: the cooldown is set to 120 only by an auto-cycle
\* transition into Jumping; a cooldown that is active (> 0) at the start of
\* a step is never increased or refreshed by that step; and
\* 0 <= abilityCooldownTicks <= 120.
C11_ActiveNeverRaised ==
    [][last'.op = "update"
        => /\ abilityCooldownTicks \in 0..120
           /\ abilityCooldownTicks' \in 0..120
           /\ last'.armed
                => /\ last'.cycled
                   /\ animation'.state = Jumping
                   /\ abilityCooldownTicks' = 120
           /\ abilityCooldownTicks > 0
                => abilityCooldownTicks' <= abilityCooldownTicks]_vars

\* C11: the cooldown is set to 120 only by the auto-cycle transition into
\* Jumping, and only when it is 0 at that moment, which is after the step's
\* own decrement: a step that starts with more than one tick left never
\* raises the cooldown (it goes down by 1), a step that starts with exactly
\* one tick left takes it to 0 and, when the driver enters Jumping in that
\* step, on to 120; and 0 <= abilityCooldownTicks <= 120.
C11_ArmOnlyFromZero ==
    [][last'.op = "update"
        => /\ abilityCooldownTicks \in 0..120
           /\ abilityCooldownTicks' \in 0..120
           /\ (last'.armed \/ abilityCooldownTicks' > abilityCooldownTicks)
                => /\ abilityCooldownTicks' = 120
                   /\ abilityCooldownTicks <= 1
                   /\ last'.armed /\ last'.cycled
                   /\ animation'.state = Jumping
                   /\ jumpStartTick' = ticks'
           /\ abilityCooldownTicks >= 2
                => abilityCooldownTicks' = abilityCooldownTicks - 1
           /\ abilityCooldownTicks <= 1
                => abilityCooldownTicks' = IF last'.armed THEN 120 ELSE 0]_vars

\* A step that started with one tick of cooldown left, counted it down and
\* armed the cooldown again on entering Jumping.
C11_Witness ==
    /\ last.op = "update"
    /\ last.fromCooldown = 1
    /\ last.armed
    /\ last.cycled
    /\ animation.state = Jumping
    /\ jumpStartTick = ticks
    /\ abilityCooldownTicks = 120

\* C12: the spawn timer fires at most once per update step, two consecutive
\* fires are at least 180 ticks apart, and no tick value gets two fires, also
\* when update runs again with an unchanged tick.
C12_SpawnSpacing ==
    [][last'.op = "update"
        => /\ Len(particles') <= Len(particles) + 1
           /\ Cardinality({i \in DOMAIN particles' :
                              particles'[i].spawnTick = ticks'}) <= 1
           /\ last'.fired
                => /\ ticks' >= 180
                   /\ obs.fireTick >= 0 => ticks' - obs.fireTick >= 180
           /\ (obs.fireTick = ticks')
                => /\ ~last'.fired
                   /\ particles' = particles
                   /\ lastSpawnTick' = lastSpawnTick]_vars

\* update() run again at the tick of a fire: no second particle.
C12_Witness ==
    /\ last.op = "update"
    /\ ~last.fired
    /\ obs.fireTick = ticks
    /\ lastSpawnTick = ticks
    /\ Len(particles) = 1
    /\ particles[1].spawnTick = ticks

\* The particles of ps that the prune pass at tick t keeps.
Kept(ps, t) == SelectSeq(ps, LAMBDA p : t - p.spawnTick < 180)

\* C13: a step at tick t fires exactly when t - lastSpawnTick >= 180; then
\* one particle with spawnTick = t is appended and lastSpawnTick becomes t
\* (any overshoot is absorbed); otherwise lastSpawnTick stays and the particle
\* list gains nothing.
C13_SpawnFire ==
    [][last'.op = "update"
        => IF ticks' - lastSpawnTick >= 180
           THEN /\ last'.fired
                /\ lastSpawnTick' = ticks'
                /\ Len(particles') = Len(Kept(particles, ticks')) + 1
                /\ SubSeq(particles', 1, Len(particles') - 1)
                       = Kept(particles, ticks')
                /\ particles'[Len(particles')].spawnTick = ticks'
           ELSE /\ ~last'.fired
                /\ lastSpawnTick' = lastSpawnTick
                /\ particles' = Kept(particles, ticks')]_vars

\* The step from tick 179 to tick 181 fires once and restarts the interval
\* at 181.
C13_Witness ==
    /\ last.op = "update"
    /\ last.fired
    /\ ticks = 181
    /\ lastSpawnTick = 181
    /\ Len(particles) = 1
    /\ particles[1].spawnTick = 181

\* C14: the prune pass at tick t keeps exactly the particles with
\* t - spawnTick < 180, unaltered, and removes exactly those with
\* t - spawnTick >= 180; age 179 survives, age 180 does not.
C14_PruneExact ==
    [][last'.op = "update"
        => /\ \A i \in DOMAIN particles :
                IF ticks' - particles[i].spawnTick < 180
                THEN \E j \in DOMAIN particles' : particles'[j] = particles[i]
                ELSE \A j \in DOMAIN particles' : particles'[j] # particles[i]
           /\ \A j \in DOMAIN particles' :
                /\ ticks' - particles'[j].spawnTick < 180
                /\ \/ \E i \in DOMAIN particles : particles[i] = particles'[j]
                   \/ particles'[j].spawnTick = ticks']_vars

\* A particle that has just survived the prune pass at age 179.
C14_Witness ==
    /\ last.op = "update"
    /\ Len(particles) = 1
    /\ ticks - particles[1].spawnTick = 179
    /\ particles[1].pos = <<309, 129>>

\* C15: a particle spawned in a step is in the registry at the end of that
\* step with age 0, behind the survivors of the prune pass, and a render pass
\* that follows the step draws it at full alpha.
C15_NewbornSurvives ==
    [][/\ (last'.op = "update" /\ ticks' - lastSpawnTick >= 180)
            => /\ Len(particles') >= 1
               /\ ticks' - particles'[Len(particles')].spawnTick = 0
       /\ (last'.op = "render" /\ last.op = "update" /\ last.fired
           /\ ~last'.out.loading)
            => /\ last'.out.particleCount = Len(particles)
               /\ last'.out.particleCount >= 1
               /\ last'.out.alphas[Len(particles)] = 255]_vars

\* The render pass after the step that spawned the second particle and
\* pruned the first.
C15_Witness ==
    /\ last.op = "render"
    /\ ~last.out.loading
    /\ obs.fireTick = ticks
    /\ ticks >= 360
    /\ last.out.particleCount = 1
    /\ last.out.alphas[1] = 255

\* The core state of an instance with particle positions left out.
CoreView(g) ==
    [state |-> g.animation.state,
     frameIndex |-> g.animation.frameIndex,
     lastFrameChangeTick |-> g.animation.lastFrameChangeTick,
     jumpStartTick |-> g.jumpStartTick,
     abilityCooldownTicks |-> g.abilityCooldownTicks,
     lastSpawnTick |-> g.lastSpawnTick,
     spawnTicks |-> [i \in DOMAIN g.particles |-> g.particles[i].spawnTick]]

\* C16: two instances fed the same sequence of tick values agree on state,
\* frameIndex, lastFrameChangeTick, jumpStartTick, abilityCooldownTicks,
\* lastSpawnTick and the list of particle spawn ticks, whatever random
\* positions each of them draws.
C16_Deterministic == CoreView(Game) = CoreView(twin)

\* The two instances hold particles at different positions.
C16_Witness ==
    /\ last.op = "update"
    /\ Len(particles) = 1
    /\ Len(twin.particles) = 1
    /\ particles[1].pos # twin.particles[1].pos
    /\ abilityCooldownTicks > 0
    /\ animation.state = Jumping

\* C17: every tick a step writes (lastFrameChangeTick, jumpStartTick, a new
\* particle's spawnTick, lastSpawnTick) equals the tick value read at the
\* start of that step.
C17_StepTick ==
    [][last'.op = "update"
        => /\ animation'.lastFrameChangeTick
                \in {animation.lastFrameChangeTick, ticks'}
           /\ (last'.advanced \/ last'.jumpDone \/ last'.cycled)
                => animation'.lastFrameChangeTick = ticks'
           /\ jumpStartTick' \in {jumpStartTick, ticks'}
           /\ (last'.cycled /\ animation'.state = Jumping)
                => jumpStartTick' = ticks'
           /\ lastSpawnTick' \in {lastSpawnTick, ticks'}
           /\ last'.fired
                => /\ lastSpawnTick' = ticks'
                   /\ particles'[Len(particles')].spawnTick = ticks'
           /\ \A j \in DOMAIN particles' :
                \/ particles'[j].spawnTick = ticks'
                \/ \E i \in DOMAIN particles : particles[i] = particles'[j]]_vars

\* The step at tick 360 ends the jump and spawns a particle; both stamps
\* carry 360.
C17_Witness ==
    /\ last.op = "update"
    /\ ticks = 360
    /\ last.fired
    /\ last.jumpDone
    /\ animation.lastFrameChangeTick = 360
    /\ lastSpawnTick = 360
    /\ particles[Len(particles)].spawnTick = 360

\* C18: render() never changes animation.state, animation.frameIndex,
\* animation.lastFrameChangeTick, jumpStartTick, abilityCooldownTicks,
\* lastSpawnTick or the particle registry.
C18_RenderReadOnly ==
    [][last'.op = "render"
        => /\ animation' = animation
           /\ jumpStartTick' = jumpStartTick
           /\ abilityCooldownTicks' = abilityCooldownTicks
           /\ lastSpawnTick' = lastSpawnTick
           /\ particles' = particles]_vars

\* A render pass that drew the jump, a fading particle and a running
\* cooldown.
C18_Witness ==
    /\ last.op = "render"
    /\ ~last.out.loading
    /\ last.out.state = Jumping
    /\ last.out.jumpElapsed > 0
    /\ last.out.particleCount = 1
    /\ last.out.alphas[1] < 255
    /\ last.out.cooldownSeconds = 2
    /\ abilityCooldownTicks > 60

\* C19 as stated: within each step the timers (cooldown, auto-cycle driver,
\* spawn timer) are evaluated first, then the animation state machine
\* advances frame and state, then the registry spawns and prunes.
C19_SchedulerFirst ==
    [][last'.op = "update"
        => \E r \in Rands :
              LET c1 == tickCooldown(Game)
                  c2 == autoCycleStates(c1, ticks', ticks')
                  c3 == updateAnimation(c2, ticks', ticks')
                  c4 == tickSpawn(c3, ticks', r[1], r[2], ticks')
              IN  Game' = pruneParticles(c4, ticks')]_vars

\* C19: within each step the animation state machine (frame advance, jump
\* completion) runs before the auto-cycle driver, which runs last: a jump
\* that completes inside the Jumping window is re-entered in the same step
\* and every step ends in the window's state; the cooldown decrement runs
\* before the driver arms it, the spawn runs before the prune, and a render
\* pass reads the state the step left behind.
C19_PhaseOrder ==
    [][/\ last'.op = "update"
            => /\ animation'.state = ClaimTarget(ticks')
               /\ (/\ animation.state = Jumping
                   /\ ticks' - jumpStartTick >= 60
                   /\ ClaimTarget(ticks') = Jumping)
                    => /\ jumpStartTick' = ticks'
                       /\ animation'.frameIndex = 0
                       /\ animation'.lastFrameChangeTick = ticks'
               /\ (animation.state # Jumping /\ ClaimTarget(ticks') = Jumping
                   /\ abilityCooldownTicks <= 1)
                    => abilityCooldownTicks' = 120
               /\ ticks' - lastSpawnTick >= 180
                    => particles'[Len(particles')].spawnTick = ticks'
       /\ (last'.op = "render" /\ ~last'.out.loading)
            => /\ last'.out.state = ClaimTarget(ticks)
               /\ last'.out.particleCount = Len(particles)
               /\ last'.out.cooldownSeconds * 60 >= abilityCooldownTicks]_vars

\* The render pass after the step at tick 300, which completed the jump
\* begun at 240 and began the next one.
C19_Witness ==
    /\ last.op = "render"
    /\ ticks = 300
    /\ last.out.state = Jumping
    /\ last.out.jumpElapsed = 0
    /\ jumpStartTick = 300
    /\ abilityCooldownTicks = 60

\* C20: when the font fails to load initialize returns false and creates no
\* sprite sheet; it returns true only with both font and sprite sheet
\* present; and while an asset is missing no update step has touched the
\* animation, cooldown, spawn or particle state.
C20_FailFast ==
    /\ assets.pc # "done" => (assets.result = "pending" /\ ~assets.spriteSheet)
    /\ assets.spriteSheet => assets.result = "true"
    /\ (assets.result # "pending" /\ ~assets.font)
         => (assets.result = "false" /\ ~assets.spriteSheet)
    /\ assets.result = "false" => ~assets.font
    /\ assets.result = "true" => (assets.font /\ assets.spriteSheet)
    /\ ~(assets.font /\ assets.spriteSheet)
         => /\ Game = InitGame
            /\ ticks = 0
            /\ last.op # "update"
    /\ last.op = "update" => assets.result = "true"

\* initialize has returned false after a failed font load.
C20_Witness ==
    /\ assets.result = "false"
    /\ ~assets.font
    /\ ~assets.spriteSheet
    /\ Game = InitGame

\* C21: every particle drawn by a render pass at the tick of the last update
\* has age = currentTick - spawnTick in 0..179 and an alpha in 0..255 that
\* is 255 at age 0 and never above the alpha of any younger age.
C21_AlphaRange ==
    [][(last'.op = "render" /\ ~last'.out.loading)
        => /\ DOMAIN last'.out.alphas = DOMAIN particles
           /\ \A i \in DOMAIN particles :
                LET age == ticks - particles[i].spawnTick
                    alpha == last'.out.alphas[i]
                IN  /\ age \in 0..179
                    /\ alpha \in 0..255
                    /\ age = 0 => alpha = 255
                    /\ 180 * alpha <= 255 * (180 - age)
                    /\ \A b \in 0..age : particleAlpha(b) >= alpha
                    /\ \A b \in 0..(age - 1) :
                           particleAlpha(b + 1) <= particleAlpha(b)]_vars

\* A render pass drew a particle of age 144, where the double-precision
\* product rounds to 50.
C21_Witness ==
    /\ last.op = "render"
    /\ ~last.out.loading
    /\ Len(particles) = 1
    /\ ticks - particles[1].spawnTick = 144
    /\ last.out.alphas[1] = 50

\* C22: every particle in the registry lies in the spawn rectangle
\* (10 <= x <= 309, 30 <= y <= 129), and a particle keeps its position and
\* spawnTick from its spawn to its removal.
C22_ParticleFixed ==
    [][\A j \in DOMAIN particles' :
          /\ particles'[j].pos[1] \in 10..309
          /\ particles'[j].pos[2] \in 30..129
          /\ \/ \E i \in DOMAIN particles : particles[i] = particles'[j]
             \/ /\ last'.op = "update"
                /\ last'.fired
                /\ particles'[j].spawnTick = ticks'
                /\ \A i \in DOMAIN particles :
                      particles[i].spawnTick # ticks']_vars

\* A particle spawned at the far corner of the rectangle, 100 ticks on and
\* after a render pass.
C22_Witness ==
    /\ last.op = "render"
    /\ Len(particles) = 1
    /\ particles[1].pos = <<309, 129>>
    /\ ticks - particles[1].spawnTick = 100

\* C23: the step in which the auto-cycle driver transitions into Jumping
\* with the cooldown run out arms it, and that step ends with
\* abilityCooldownTicks = 120 (the step's decrement came first); the step
\* after it takes the cooldown to 119.
C23_ArmedNotDecremented ==
    [][last'.op = "update"
        => /\ (last'.cycled /\ animation'.state = Jumping
               /\ abilityCooldownTicks <= 1)
                => /\ last'.armed
                   /\ abilityCooldownTicks' = 120
           /\ last'.armed
                => /\ last'.cycled
                   /\ animation'.state = Jumping
                   /\ abilityCooldownTicks' = 120
           /\ (last.op = "update" /\ last.armed)
                => /\ abilityCooldownTicks = 120
                   /\ abilityCooldownTicks' = 119]_vars

\* The step after the arming step: the first decrement.
C23_Witness ==
    /\ last.op = "update"
    /\ ~last.armed
    /\ obs.armSteps = 1
    /\ abilityCooldownTicks = 119
    /\ animation.state = Jumping

\* C24: a step that completes the jump at a tick t still inside the Jumping
\* window (t mod 360 >= 240) re-enters Jumping at once: it ends with state
\* Jumping, frameIndex 0, lastFrameChangeTick = t and jumpStartTick = t, and
\* a cooldown still running is not armed again (it only takes the step's
\* decrement).  With unit ticks from 0 Jumping is entered at 240 + 360n and
\* 300 + 360n and the cooldown is armed at 240 + 360n only.
C24_JumpReentry ==
    [][last'.op = "update"
        => /\ (last'.jumpDone /\ ticks' % 360 >= 240)
                => /\ animation'.state = Jumping
                   /\ animation'.frameIndex = 0
                   /\ animation'.lastFrameChangeTick = ticks'
                   /\ jumpStartTick' = ticks'
                   /\ abilityCooldownTicks >= 2
                        => /\ ~last'.armed
                           /\ abilityCooldownTicks' = abilityCooldownTicks - 1
           /\ obs'.irregular = 0
                => /\ last'.armed <=> ticks' % 360 = 240
                   /\ (last'.cycled /\ animation'.state = Jumping)
                        <=> ticks' % 360 \in {240, 300}
                   /\ last'.jumpDone <=> ticks' % 360 \in {300, 0}]_vars

\* Unit ticks up to 300: the jump begun at 240 ends and the next begins,
\* with 60 ticks of cooldown left.
C24_Witness ==
    /\ last.op = "update"
    /\ obs.irregular = 0
    /\ ticks = 300
    /\ last.jumpDone
    /\ animation.state = Jumping
    /\ animation.frameIndex = 0
    /\ jumpStartTick = 300
    /\ abilityCooldownTicks = 60

\* C25: after every update step state = Jumping implies
\* 0 <= currentTick - jumpStartTick < 60, so a render pass reads a jump
\* progress in [0,1); outside Jumping the jump offset is 0.
C25_JumpProgress ==
    /\ animation.state = Jumping
         => /\ ticks - jumpStartTick >= 0
            /\ ticks - jumpStartTick < 60
    /\ (last.op = "render" /\ ~last.out.loading)
         => /\ last.out.jumpElapsed \in 0..59
            /\ last.out.state = Jumping
                 => last.out.jumpElapsed = ticks - jumpStartTick
            /\ last.out.state # Jumping => last.out.jumpElapsed = 0

\* A render pass in the last tick of a jump, reached over a skipped tick.
C25_Witness ==
    /\ last.op = "render"
    /\ ~last.out.loading
    /\ last.out.state = Jumping
    /\ last.out.jumpElapsed = 59
    /\ obs.irregular > 0
    /\ jumpStartTick % 60 # 0

\* C26: after every update step, also one that skipped ticks, the registry
\* holds at most one particle: the step that spawns a particle prunes the
\* previous one, so two particles exist only between the spawn and the prune
\* of that step.
C26_AtMostOneParticle ==
    [][last'.op = "update"
        => /\ Len(particles) <= 1
           /\ Len(particles') <= 1
           /\ last'.fired
                => /\ Len(particles') = 1
                   /\ particles'[1].spawnTick = ticks'
                   /\ \A i \in DOMAIN particles :
                         /\ ticks' - particles[i].spawnTick >= 180
                         /\ particles[i] # particles'[1]]_vars

\* The step at tick 362, the second step that skipped a tick, replaced the
\* previous particle by a new one.
C26_Witness ==
    /\ last.op = "update"
    /\ last.fired
    /\ ticks = 362
    /\ obs.irregular = 2
    /\ Len(particles) = 1
    /\ particles[1].spawnTick = 362

\* C27: after every update step 0 <= currentTick - lastSpawnTick < 180, so
\* the ticks-until-next-spawn value read by render at the tick of the last
\* update, 180 - (currentTick - lastSpawnTick), is in 1..180.
C27_SpawnCountdown ==
    /\ ticks - lastSpawnTick >= 0
    /\ ticks - lastSpawnTick < 180
    /\ (last.op = "render" /\ ~last.out.loading)
         => /\ last.out.ticksUntilSpawn \in 1..180
            /\ last.out.ticksUntilSpawn = 180 - (ticks - lastSpawnTick)

\* A render pass one tick before the fire that follows the one at 181.
C27_Witness ==
    /\ last.op = "render"
    /\ ~last.out.loading
    /\ last.out.ticksUntilSpawn = 1
    /\ lastSpawnTick = 181

\* C28: an update with the same tick as the update just before it leaves
\* state, frameIndex, lastFrameChangeTick, jumpStartTick, lastSpawnTick and
\* the particle list unchanged; only abilityCooldownTicks changes, going down
\* by 1 if positive.
C28_RepeatedTick ==
    [][(last.op = "update" /\ last'.op = "update" /\ ticks' = ticks)
        => /\ animation' = animation
           /\ jumpStartTick' = jumpStartTick
           /\ lastSpawnTick' = lastSpawnTick
           /\ particles' = particles
           /\ abilityCooldownTicks' =
                 IF abilityCooldownTicks > 0
                 THEN abilityCooldownTicks - 1 ELSE 0]_vars

\* Three more updates at tick 240 after the one that armed the cooldown
\* there: the cooldown has counted them.
C28_Witness ==
    /\ last.op = "update"
    /\ ticks = 240
    /\ obs.armSteps = 3
    /\ abilityCooldownTicks = 117
    /\ animation.lastFrameChangeTick = 240
    /\ animation.frameIndex = 0

\* C29: state changes only through changeState, and frameIndex changes only
\* by a frame advance (to (old + 1) mod frameCount(state), state unchanged)
\* or by a state-changing transition (to 0); render and the other blocks of
\* update write neither.
C29_FrameWrites ==
    [][/\ last'.op = "render"
            => /\ animation'.state = animation.state
               /\ animation'.frameIndex = animation.frameIndex
       /\ last'.op = "update"
            => /\ animation'.state # animation.state
                    => /\ last'.jumpDone \/ last'.cycled
                       /\ animation'.frameIndex = 0
                       /\ animation'.lastFrameChangeTick = ticks'
               /\ (last'.jumpDone \/ last'.cycled)
                    => animation'.frameIndex = 0
               /\ (~last'.jumpDone /\ ~last'.cycled)
                    => /\ animation'.state = animation.state
                       /\ animation'.frameIndex =
                             IF ticks' - animation.lastFrameChangeTick >= 8
                             THEN (animation.frameIndex + 1)
                                      % ClaimFrameCount(animation.state)
                             ELSE animation.frameIndex]_vars

\* The frame advance and the transition of one step: at tick 120 the Idle
\* frame is due and the driver then enters Walking at frame 0.
C29_Witness ==
    /\ last.op = "update"
    /\ ticks = 120
    /\ last.advanced
    /\ last.cycled
    /\ last.fromState = Idle
    /\ last.fromFrame = 2
    /\ animation.state = Walking
    /\ animation.frameIndex = 0

\* C30: after every update step of the Basics demo the square is on screen
\* (0 <= x <= 320 - 16, 0 <= y <= 240 - 16), the velocity components have
\* magnitudes 2 and 1, a component changes sign exactly in the steps whose
\* moved position reaches or passes an edge of its axis, and a square on an
\* edge moves away from it in the next step.
C30_BouncingSquare ==
    [][last'.op = "BasicGame.update"
        => LET x == basicGame.playerPos[1]
               y == basicGame.playerPos[2]
               vx == basicGame.playerVel[1]
               vy == basicGame.playerVel[2]
               nx == basicGame'.playerPos[1]
               ny == basicGame'.playerPos[2]
               nvx == basicGame'.playerVel[1]
               nvy == basicGame'.playerVel[2]
           IN  /\ nx \in 0..304
               /\ ny \in 0..224
               /\ nvx \in {-2, 2}
               /\ nvy \in {-1, 1}
               /\ (nvx = -vx) <=> (x + vx <= 0 \/ x + vx >= 304)
               /\ (nvy = -vy) <=> (y + vy <= 0 \/ y + vy >= 224)
               /\ (nvx # -vx) => (nvx = vx /\ nx = x + vx)
               /\ (nvy # -vy) => (nvy = vy /\ ny = y + vy)
               /\ x = 0 => nx > 0
               /\ x = 304 => nx < 304
               /\ y = 0 => ny > 0
               /\ y = 224 => ny < 224]_vars

\* The square has just bounced off the left edge, after bounces off the
\* right and the bottom edge.
C30_Witness ==
    /\ last.op = "BasicGame.update"
    /\ basicGame.playerPos[1] = 0
    /\ basicGame.playerVel = <<2, -1>>

====
